---- MODULE Spec2Model ----
(***************************************************************************)
(* Model of the bot supervisor (backend/trading/user_bot_manager.py), its  *)
(* HTTP routes (backend/api/routes/trading_routes.py) and the agent loop   *)
(* (backend/trading/enhanced_trading_bot.py), the risk gate                *)
(* (trading/risk_manager.py), the position management of                   *)
(* integrated_automl_bot.py and the trade ledger (save_trade).             *)
(*                                                                         *)
(* Scheduling is asyncio's: a coroutine runs without interruption from one *)
(* suspension point (an await that really waits) to the next, so every     *)
(* action below is the code between two suspension points.  Database       *)
(* access is synchronous in the source and therefore part of the step.     *)
(***************************************************************************)
EXTENDS Integers, Sequences, FiniteSets, TLC

\* ---------------------------------------------------------------- bounds
NUsers == 2
MaxInst == 2
NSymbols == 3
MaxDailyLoss == 30
MaxLossRun == 6
MaxTrades == 1
MaxDays == 2
MaxRows == 4
MaxAssetValue == 1400
NCallers == 2
MaxFailures == 6

\* ------------------------------------------------------ program constants
max_errors == 5
api_request_limit == 10
retries == 3
backoff == 1

\* RiskManager.__init__: the fractions 0.05, 0.05, 0.02 and 0.05, in percent,
\* and the capital get_capital falls back to.
max_daily_loss == 5
max_position_size == 5
risk_stop_loss == 2
risk_take_profit == 5
default_capital == 500
start_cash == 1000
failure_threshold == 5

\* IntegratedAutoMLTradingSystem: min_confidence 0.65, stop_loss_pct 0.02 and
\* take_profit_pct 0.05, in percent.
min_confidence == 65
stop_loss_pct == 2
take_profit_pct == 5

Users == 1..NUsers
Symbols == 1..NSymbols

\* A stop_user_bot call is made by the route POST /bot/stop (one request in
\* flight per user) or by stop_all_bots through asyncio.gather.
StopKeys == {"route", "gather"} \X Users

\* ------------------------------------------------------------- variables
VARIABLES
    insts,          \* the BotInstance table: instance id -> [user, status]
    starts,         \* the start_bot call made for each instance: its position
    tasks,          \* asyncio task of _run_bot per instance: [pc, must_cancel]
    active_bots,    \* UserBotManager.active_bots: user -> instance id of the bot, 0 = no entry
    bot_tasks,      \* UserBotManager.bot_tasks: user -> task id, 0 = no entry
    bot_status,     \* UserBotManager.bot_status: user -> "running" or "none" (no entry)
    lock,           \* UserBotManager._lock: [holder, waiters] (asyncio.Lock is FIFO)
    stops,          \* the stop_user_bot calls: key -> [pc, task]
    stop_all,       \* stop_all_bots: "idle", "gather" or "done"
    last            \* the answer given by the step just taken: [op, user, result]

supVars == <<insts, starts, tasks, active_bots, bot_tasks, bot_status, lock,
             stops, stop_all, last>>

\* One agent, inside EnhancedTradingBot.run_trading_loop.
VARIABLES
    a_pc,               \* position of run_trading_loop
    is_running,         \* EnhancedTradingBot.is_running
    error_count,        \* run_trading_loop's local error_count
    api_request_count,  \* EnhancedTradingBot.api_request_count
    stale,              \* more than one second has passed since last_request_time
    trades,             \* the _manage_trade coroutine of each symbol: [pc, attempt, result, wait]
    orders,             \* symbols whose order was sent to the exchange in this iteration
    approved,           \* symbols whose proposal RiskManager.validate_trade approved in this iteration
    streak,             \* iterations that raised since the last one that did not
    exit_cause,         \* why the loop was left: "none", "max_errors", "cancelled", "stopped"
    recorded,           \* symbols whose update_position was written in this iteration
    handled             \* the result the results loop took up: [producer, symbol], 0 = none

agentVars == <<a_pc, is_running, error_count, api_request_count, stale,
               trades, orders, approved, streak, exit_cause, recorded,
               handled>>

\* RiskManager.validate_trade for one user, with the rows it reads.
VARIABLES
    r_capital,      \* users.capital of the user; 0 stands for 0, NULL or no row
    r_rows,         \* date -> SUM(pnl) over the user's trades rows of that date with pnl < 0
    r_today,        \* CURRENT_DATE
    r_loss_run,     \* losing closes recorded since the last winning one
    r_verdict       \* the last validate_trade call: its trade, answer and warning

riskVars == <<r_capital, r_rows, r_today, r_loss_run, r_verdict>>

\* IntegratedAutoMLTradingSystem.execute_signal for one symbol.
VARIABLES
    position,       \* trading_bot.positions[symbol]: its entry_price, 0 = no entry
    peak,           \* highest current_price of a signal since the position was opened
    sig_last        \* the last execute_signal call: its signal and what it did

sigVars == <<position, peak, sig_last>>

\* The Trade table and the BotInstance counters written by save_trade.
VARIABLES
    trade_rows,     \* user -> number of persisted Trade rows
    total_trades    \* instance id -> BotInstance.total_trades

ledgerVars == <<trade_rows, total_trades>>

\* update_position for one user, with the rows it reads and writes.
VARIABLES
    portfolio,      \* the user's portfolio row: [exists, cash]
    assets,         \* the assets table of that portfolio: row id -> [name, value]
    pos_last        \* the last update_position call: [called, raised]

posVars == <<portfolio, assets, pos_last>>

\* One CircuitBreaker and the threads calling the function it wraps.
VARIABLES
    cb_state,           \* self.state: "CLOSED", "OPEN" or "HALF_OPEN"
    failure_count,      \* self.failure_count
    last_failure_time,  \* "None", "recent" (within recovery_timeout) or "old"
    c_pc                \* caller -> its position in wrapper

breakerVars == <<cb_state, failure_count, last_failure_time, c_pc>>

vars == <<supVars, agentVars, riskVars, sigVars, ledgerVars, posVars,
          breakerVars>>

\* A step of one component leaves the others alone.
SupFrame == UNCHANGED <<agentVars, riskVars, sigVars, ledgerVars, posVars,
                       breakerVars>>
AgentFrame == UNCHANGED <<supVars, riskVars, sigVars, ledgerVars, posVars,
                       breakerVars>>
RiskFrame == UNCHANGED <<supVars, agentVars, sigVars, ledgerVars, posVars,
                       breakerVars>>
SigFrame == UNCHANGED <<supVars, agentVars, riskVars, ledgerVars, posVars,
                       breakerVars>>
LedgerFrame == UNCHANGED <<agentVars, riskVars, sigVars, posVars, breakerVars>>
PosFrame == UNCHANGED <<supVars, agentVars, riskVars, sigVars, ledgerVars,
                       breakerVars>>
BreakerFrame == UNCHANGED <<supVars, agentVars, riskVars, sigVars, ledgerVars,
                           posVars>>

\* ------------------------------------------------------------------ lock
NoHolder == <<"none", 0>>
StartH(i) == <<"start", i>>
TaskH(t) == <<"task", t>>
\* a stop_user_bot call is named by its key

\* asyncio.Lock.release: the first waiter is woken and owns the lock next.
Release(lk) ==
    IF lk.waiters = <<>>
    THEN [holder |-> NoHolder, waiters |-> <<>>]
    ELSE [holder |-> Head(lk.waiters), waiters |-> Tail(lk.waiters)]

\* asyncio.Lock.acquire by h when the lock is taken: h joins the queue.
Enqueue(lk, h) == [lk EXCEPT !.waiters = Append(@, h)]

\* asyncio.Lock.acquire by h when it is free (no suspension).
Take(lk, h) == [lk EXCEPT !.holder = h]

RECURSIVE Without(_, _)
Without(s, h) ==
    IF s = <<>> THEN <<>>
    ELSE IF Head(s) = h THEN Without(Tail(s), h)
    ELSE <<Head(s)>> \o Without(Tail(s), h)

\* A waiter cancelled inside Lock.acquire leaves the queue; if it had just
\* been handed the lock, the lock goes to the next waiter.
Abandon(lk, h) ==
    IF lk.holder = h THEN Release(lk)
    ELSE [lk EXCEPT !.waiters = Without(@, h)]

\* ------------------------------------------------------------ the tables
InstIds == 1..Len(insts)

\* Mutant of ExistingActive: the query forgets the status "starting".
ExistingActiveRunningOnly(u) ==
    {i \in InstIds : insts[i].user = u /\ insts[i].status = "running"}

\* create_bot_instance's query: BotInstance.status.in_(["running", "starting"])
ExistingActive(u) ==
    {i \in InstIds : insts[i].user = u
                     /\ insts[i].status \in {"running", "starting"}}

\* get_user_bot's query: status in running, starting, paused
GetUserBot(u) ==
    {i \in InstIds : insts[i].user = u
                     /\ insts[i].status \in {"running", "starting", "paused"}}

\* .first() of a query: any matching row, or 0 (None) when there is none
First(S) == IF S = {} THEN {0} ELSE S

\* _update_bot_error's query: the user's rows with status "running"
RunningOf(u) ==
    {i \in InstIds : insts[i].user = u /\ insts[i].status = "running"}

\* _update_bot_error applied to row j (0: no row, nothing is written)
MarkError(tbl, j) ==
    IF j = 0 THEN tbl ELSE [tbl EXCEPT ![j].status = "error"]

TaskDone(t) == tasks[t].pc \in {"done", "cancelled"}

Answer(op, u, res) == [op |-> op, user |-> u, result |-> res]

\* the step just taken answered no caller
NoAnswer == Answer("none", 0, "none")

\* The answer a finished stop_user_bot leaves: the route's call answers its
\* client, a call run by gather answers nobody.
LastAfter(k, res) ==
    IF k[1] = "route" THEN Answer("stop", k[2], res) ELSE NoAnswer

\* ------------------------------------------------------------------ Init
SupInit ==
    /\ insts = <<>>
    /\ starts = <<>>
    /\ tasks = <<>>
    /\ active_bots = [u \in Users |-> 0]
    /\ bot_tasks = [u \in Users |-> 0]
    /\ bot_status = [u \in Users |-> "none"]
    /\ lock = [holder |-> NoHolder, waiters |-> <<>>]
    /\ stops = [k \in StopKeys |-> [pc |-> "idle", task |-> 0]]
    /\ stop_all = "idle"
    /\ last = NoAnswer

\* ------------------------------------------------- routes: POST /bot/start
\* trading_routes.start_bot up to the rejection: get_user_bot finds a running
\* bot (400), or create_bot_instance raises ValueError (500).
RouteStartRejected(u) ==
    /\ stop_all = "idle"
    /\ \E e \in First(GetUserBot(u)) :
          \/ e # 0 /\ insts[e].status = "running"
          \/ ExistingActive(u) # {}
    /\ last' = Answer("route_start", u, "error")
    /\ UNCHANGED <<insts, starts, tasks, active_bots, bot_tasks, bot_status,
                   lock, stops, stop_all>>
    /\ SupFrame

\* trading_routes.start_bot when nothing rejects: create_bot_instance adds the
\* row with status "created" and start_bot is queued as a background task.
RouteStartAccepted(u) ==
    /\ stop_all = "idle"
    /\ Len(insts) < MaxInst
    /\ \E e \in First(GetUserBot(u)) :
          /\ ~(e # 0 /\ insts[e].status = "running")
          /\ ExistingActive(u) = {}
    /\ insts' = Append(insts, [user |-> u, status |-> "created"])
    /\ starts' = Append(starts, "queued")
    /\ tasks' = Append(tasks, [pc |-> "none", must_cancel |-> FALSE])
    /\ last' = Answer("route_start", u, "starting")
    /\ UNCHANGED <<active_bots, bot_tasks, bot_status, lock, stops, stop_all>>
    /\ SupFrame

\* ------------------------------------------------------------- start_bot
\* start_bot's except branch: _update_bot_error(user_id), then re-raise; the
\* async with releases the lock.
StartFail(i, lk) ==
    /\ \E j \in First(RunningOf(insts[i].user)) :
          insts' = MarkError(insts, j)
    /\ starts' = [starts EXCEPT ![i] = "done"]
    /\ lock' = Release(lk)
    /\ last' = NoAnswer
    /\ UNCHANGED <<tasks, active_bots, bot_tasks, bot_status, stops,
                   stop_all>>

\* start_bot from the acquired lock to its first suspension point
\* (get_user_config, bot.initialize).
StartLocked(i, lk) ==
    IF insts[i].status = "running"
    THEN \* return False
         /\ starts' = [starts EXCEPT ![i] = "done"]
         /\ lock' = Release(lk)
         /\ last' = NoAnswer
         /\ UNCHANGED <<insts, tasks, active_bots, bot_tasks, bot_status,
                        stops, stop_all>>
    ELSE \E portfolio_found \in BOOLEAN :
            IF portfolio_found
            THEN /\ starts' = [starts EXCEPT ![i] = "init"]
                 /\ lock' = lk
                 /\ last' = NoAnswer
                 /\ UNCHANGED <<insts, tasks, active_bots, bot_tasks,
                                bot_status, stops,
                                stop_all>>
            ELSE StartFail(i, lk)

\* start_bot after bot.initialize returned: status "starting", create_task,
\* the three registry entries, then the await of the notification.
StartSpawn(i) ==
    LET u == insts[i].user
    IN  /\ insts' = [insts EXCEPT ![i].status = "starting"]
        /\ tasks' = [tasks EXCEPT ![i] = [pc |-> "created", must_cancel |-> FALSE]]
        /\ active_bots' = [active_bots EXCEPT ![u] = i]
        /\ bot_tasks' = [bot_tasks EXCEPT ![u] = i]
        /\ bot_status' = [bot_status EXCEPT ![u] = "running"]
        /\ starts' = [starts EXCEPT ![i] = "notify"]
        /\ last' = NoAnswer
        /\ UNCHANGED <<lock, stops, stop_all>>

\* The background task runs start_bot: "async with self._lock".
StartBegin(i) ==
    /\ i \in InstIds
    /\ starts[i] = "queued"
    /\ IF lock.holder = NoHolder
       THEN StartLocked(i, Take(lock, StartH(i)))
       ELSE /\ lock' = Enqueue(lock, StartH(i))
            /\ starts' = [starts EXCEPT ![i] = "wait_lock"]
            /\ last' = NoAnswer
            /\ UNCHANGED <<insts, tasks, active_bots, bot_tasks, bot_status,
                           stops, stop_all>>
    /\ SupFrame

StartGranted(i) ==
    /\ i \in InstIds
    /\ starts[i] = "wait_lock"
    /\ lock.holder = StartH(i)
    /\ StartLocked(i, lock)
    /\ SupFrame

\* get_user_config and bot.initialize have returned, or raised.
StartInitDone(i) ==
    /\ i \in InstIds
    /\ starts[i] = "init"
    /\ \E ok \in BOOLEAN :
          IF ok THEN StartSpawn(i) ELSE StartFail(i, lock)
    /\ SupFrame

\* start_bot after the notification was delivered: return True.
StartNotified(i) ==
    /\ i \in InstIds
    /\ starts[i] = "notify"
    /\ starts' = [starts EXCEPT ![i] = "done"]
    /\ lock' = Release(lock)
    /\ last' = NoAnswer
    /\ UNCHANGED <<insts, tasks, active_bots, bot_tasks, bot_status, stops,
                   stop_all>>
    /\ SupFrame

\* ---------------------------------------------------------- stop_user_bot
\* The position a finished stop_user_bot call is left in: the route's call
\* can be made again, a call run by gather is kept with its result.
Finished(k, res) ==
    IF k[1] = "route" THEN [pc |-> "idle", task |-> 0]
    ELSE [pc |-> res, task |-> 0]

\* Mutant of StopLocked: without an entry the call answers True instead of
\* False.
StopLockedAnswersTrue(k, lk) ==
    LET t == bot_tasks[k[2]]
    IN  IF t = 0
        THEN /\ stops' = [stops EXCEPT ![k] = Finished(k, "returned_true")]
             /\ last' = LastAfter(k, "true")
             /\ lock' = Release(lk)
             /\ UNCHANGED <<insts, starts, tasks, active_bots, bot_tasks,
                            bot_status, stop_all>>
        ELSE /\ tasks' = [tasks EXCEPT ![t].must_cancel = ~TaskDone(t)]
             /\ stops' = [stops EXCEPT ![k] =
                            [pc |-> IF TaskDone(t) THEN "notify"
                                    ELSE "await_task",
                             task |-> t]]
             /\ lock' = lk
             /\ last' = NoAnswer
             /\ UNCHANGED <<insts, starts, active_bots, bot_tasks, bot_status,
                            stop_all>>

\* stop_user_bot from the acquired lock to its first suspension point.
StopLocked(k, lk) ==
    LET t == bot_tasks[k[2]]
    IN  IF t = 0
        THEN \* return False
             /\ stops' = [stops EXCEPT ![k] = Finished(k, "returned_false")]
             /\ last' = LastAfter(k, "false")
             /\ lock' = Release(lk)
             /\ UNCHANGED <<insts, starts, tasks, active_bots, bot_tasks,
                            bot_status, stop_all>>
        ELSE \* task.cancel(); await task
             /\ tasks' = [tasks EXCEPT ![t].must_cancel = ~TaskDone(t)]
             /\ stops' = [stops EXCEPT ![k] =
                            [pc |-> IF TaskDone(t) THEN "notify"
                                    ELSE "await_task",
                             task |-> t]]
             /\ lock' = lk
             /\ last' = NoAnswer
             /\ UNCHANGED <<insts, starts, active_bots, bot_tasks,
                            bot_status, stop_all>>

\* stop_user_bot is entered: "async with self._lock".
StopEnter(k) ==
    IF lock.holder = NoHolder
    THEN StopLocked(k, Take(lock, k))
    ELSE /\ lock' = Enqueue(lock, k)
         /\ stops' = [stops EXCEPT ![k] = [pc |-> "wait_lock", task |-> 0]]
         /\ last' = NoAnswer
         /\ UNCHANGED <<insts, starts, tasks, active_bots, bot_tasks,
                        bot_status, stop_all>>

\* POST /bot/stop: the route calls stop_user_bot for the current user.
RouteStop(u) ==
    /\ stop_all = "idle"
    /\ stops[<<"route", u>>].pc = "idle"
    /\ StopEnter(<<"route", u>>)
    /\ SupFrame

\* A stop_user_bot coroutine handed to gather starts running.
GatherStopBegin(u) ==
    /\ stops[<<"gather", u>>].pc = "start"
    /\ StopEnter(<<"gather", u>>)
    /\ SupFrame

StopGranted(k) ==
    /\ stops[k].pc = "wait_lock"
    /\ lock.holder = k
    /\ StopLocked(k, lock)
    /\ SupFrame

\* stop_user_bot's "await task" ends when the task has finished, normally or
\* cancelled (CancelledError is swallowed); the notification is awaited next.
StopTaskDone(k) ==
    /\ stops[k].pc = "await_task"
    /\ TaskDone(stops[k].task)
    /\ stops' = [stops EXCEPT ![k].pc = "notify"]
    /\ last' = NoAnswer
    /\ UNCHANGED <<insts, starts, tasks, active_bots, bot_tasks, bot_status,
                   lock, stop_all>>
    /\ SupFrame

\* stop_user_bot after the notification was delivered: return True.
StopNotified(k) ==
    /\ stops[k].pc = "notify"
    /\ stops' = [stops EXCEPT ![k] = Finished(k, "returned_true")]
    /\ last' = LastAfter(k, "true")
    /\ lock' = Release(lock)
    /\ UNCHANGED <<insts, starts, tasks, active_bots, bot_tasks, bot_status,
                   stop_all>>
    /\ SupFrame

\* ---------------------------------------------------------- stop_all_bots
\* list(self.bot_tasks.keys())
RegisteredUsers == {u \in Users : bot_tasks[u] # 0}

\* No request is being served: every start_bot call made has returned and no
\* route is inside stop_user_bot.
RequestsServed ==
    /\ \A i \in InstIds : starts[i] = "done"
    /\ \A u \in Users : stops[<<"route", u>>].pc = "idle"

\* lifespan's shutdown part, which the server runs once the requests in flight
\* (with their background tasks) have been served, calls stop_all_bots: one
\* stop_user_bot per key of bot_tasks, all handed to asyncio.gather; with no
\* key it returns at once.
StopAllBegin ==
    /\ stop_all = "idle"
    /\ RequestsServed
    /\ IF RegisteredUsers = {}
       THEN /\ stop_all' = "done"
            /\ stops' = stops
       ELSE /\ stop_all' = "gather"
            /\ stops' = [k \in StopKeys |->
                           IF k[1] = "gather" /\ k[2] \in RegisteredUsers
                           THEN [pc |-> "start", task |-> 0]
                           ELSE stops[k]]
    /\ last' = NoAnswer
    /\ UNCHANGED <<insts, starts, tasks, active_bots, bot_tasks, bot_status,
                   lock>>
    /\ SupFrame

GatherFinished(k) ==
    stops[k].pc \in {"idle", "returned_true", "returned_false"}

\* asyncio.gather returns when every stop_user_bot it runs has finished.
StopAllGathered ==
    /\ stop_all = "gather"
    /\ \A u \in Users : GatherFinished(<<"gather", u>>)
    /\ stop_all' = "done"
    /\ last' = NoAnswer
    /\ UNCHANGED <<insts, starts, tasks, active_bots, bot_tasks, bot_status,
                   lock, stops>>
    /\ SupFrame

\* ------------------------------------------------------- _run_bot (task)
\* _run_bot's finally block once the lock is owned: the three pops by
\* user_id, status "stopped" for this task's instance, lock released.
Cleanup(t, lk) ==
    LET u == insts[t].user
    IN  /\ active_bots' = [active_bots EXCEPT ![u] = 0]
        /\ bot_tasks' = [bot_tasks EXCEPT ![u] = 0]
        /\ bot_status' = [bot_status EXCEPT ![u] = "none"]
        /\ insts' = [insts EXCEPT ![t].status = "stopped"]
        /\ tasks' = [tasks EXCEPT ![t] = [pc |-> "done", must_cancel |-> FALSE]]
        /\ lock' = Release(lk)

\* _run_bot reaches "finally: async with self._lock".
EnterFinally(t) ==
    IF lock.holder = NoHolder
    THEN Cleanup(t, Take(lock, TaskH(t)))
    ELSE /\ lock' = Enqueue(lock, TaskH(t))
         /\ tasks' = [tasks EXCEPT ![t] = [pc |-> "cleanup_wait",
                                            must_cancel |-> FALSE]]
         /\ UNCHANGED <<insts, active_bots, bot_tasks, bot_status>>

\* The task's first step.  A task cancelled before it ever ran ends at once:
\* CancelledError is thrown into the unstarted coroutine, whose try/finally
\* is never entered.  Otherwise status "running" is written and
\* run_trading_loop is entered, where the task stays suspended at the awaits
\* of its iterations.  run_trading_loop catches every Exception of an
\* iteration itself and leaves only by break, so _run_bot's "except
\* Exception" branch is not entered from the loop.
TaskFirstStep(t) ==
    /\ t \in InstIds
    /\ tasks[t].pc = "created"
    /\ IF tasks[t].must_cancel
       THEN /\ tasks' = [tasks EXCEPT ![t] = [pc |-> "cancelled",
                                               must_cancel |-> FALSE]]
            /\ UNCHANGED insts
       ELSE /\ insts' = [insts EXCEPT ![t].status = "running"]
            /\ tasks' = [tasks EXCEPT ![t].pc = "loop"]
    /\ last' = NoAnswer
    /\ UNCHANGED <<starts, active_bots, bot_tasks, bot_status, lock, stops,
                   stop_all>>
    /\ SupFrame

\* run_trading_loop returns by itself (is_running became False).
TaskLoopExit(t) ==
    /\ t \in InstIds
    /\ tasks[t].pc = "loop"
    /\ ~tasks[t].must_cancel
    /\ EnterFinally(t)
    /\ last' = NoAnswer
    /\ UNCHANGED <<starts, stops, stop_all>>
    /\ SupFrame

\* CancelledError reaches the task at an await of the loop: the loop breaks,
\* run_trading_loop returns (or the error propagates from the sleep of its
\* except branch) and finally runs next.
TaskCancelled(t) ==
    /\ t \in InstIds
    /\ tasks[t].pc = "loop"
    /\ tasks[t].must_cancel
    /\ EnterFinally(t)
    /\ last' = NoAnswer
    /\ UNCHANGED <<starts, stops, stop_all>>
    /\ SupFrame

\* The lock was handed to the task waiting in finally.
TaskCleanupGranted(t) ==
    /\ t \in InstIds
    /\ tasks[t].pc = "cleanup_wait"
    /\ ~tasks[t].must_cancel
    /\ lock.holder = TaskH(t)
    /\ Cleanup(t, lock)
    /\ last' = NoAnswer
    /\ UNCHANGED <<starts, stops, stop_all>>
    /\ SupFrame

\* CancelledError reaches the task while it waits for the lock in finally:
\* the block is left before the pops and the status write.
TaskCancelledWaiting(t) ==
    /\ t \in InstIds
    /\ tasks[t].pc = "cleanup_wait"
    /\ tasks[t].must_cancel
    /\ tasks' = [tasks EXCEPT ![t] = [pc |-> "cancelled", must_cancel |-> FALSE]]
    /\ lock' = Abandon(lock, TaskH(t))
    /\ last' = NoAnswer
    /\ UNCHANGED <<insts, starts, active_bots, bot_tasks, bot_status, stops,
                   stop_all>>
    /\ SupFrame

\* ------------------------------------------------------------------ Next
\* Steps the event loop owes a start_bot call.
StartStep(i) ==
    \/ StartBegin(i)
    \/ StartGranted(i)
    \/ StartInitDone(i)
    \/ StartNotified(i)

\* Steps the event loop owes a stop_user_bot call.
StopStep(k) ==
    \/ k[1] = "gather" /\ GatherStopBegin(k[2])
    \/ StopGranted(k)
    \/ StopTaskDone(k)
    \/ StopNotified(k)

\* Steps the event loop owes a task: the first step, the delivery of a
\* cancellation, the granted lock.
TaskStep(t) ==
    \/ TaskFirstStep(t)
    \/ TaskCancelled(t)
    \/ TaskCleanupGranted(t)
    \/ TaskCancelledWaiting(t)

Request ==
    \/ \E u \in Users : RouteStartRejected(u)
    \/ \E u \in Users : RouteStartAccepted(u)
    \/ \E u \in Users : RouteStop(u)
    \/ StopAllBegin

SupNext ==
    \/ Request
    \/ \E i \in 1..MaxInst : StartStep(i)
    \/ \E k \in StopKeys : StopStep(k)
    \/ StopAllGathered
    \/ \E t \in 1..MaxInst : TaskStep(t)
    \/ \E t \in 1..MaxInst : TaskLoopExit(t)

\* ================================================== the agent's loop
\* _check_api_limit on (api_request_count, stale): the count restarts when
\* more than a second has passed since last_request_time; the answer is
\* whether the count is below the limit.
CheckApiLimit(cnt, st) ==
    LET c == IF st THEN 0 ELSE cnt
    IN  [ok |-> c < api_request_limit, count |-> c, stale |-> FALSE]

\* Mutant of ShouldShutDown: the comparison is off by one.
ShouldShutDownAfterLimit(ec) == ec > max_errors

\* "if error_count >= max_errors" of the except branch
ShouldShutDown(ec) == ec >= max_errors

IdleTrade == [pc |-> "idle", attempt |-> 0, result |-> "none", wait |-> 0]

\* The sleep of _execute_trade_with_recovery after failed attempt number
\* attempt (counted from 0): backoff * (2 ** attempt) seconds.
WaitTime(attempt) == backoff * (2 ^ attempt)

NoResult == [producer |-> 0, symbol |-> 0]

\* The agent after initialize(); st: whether more than a second has passed
\* since the constructor set last_request_time.
AgentStart(st) ==
    /\ a_pc = "top"
    /\ is_running = TRUE
    /\ error_count = 0
    /\ api_request_count = 0
    /\ stale = st
    /\ trades = [s \in Symbols |-> IdleTrade]
    /\ orders = {}
    /\ approved = {}
    /\ streak = 0
    /\ exit_cause = "none"
    /\ recorded = {}
    /\ handled = NoResult

\* run_trading_loop's "except Exception" branch: the count goes up by one; at
\* max_errors is_running is cleared and the loop is left, else sleep(60).
ErrorBranch ==
    /\ error_count' = error_count + 1
    /\ streak' = streak + 1
    /\ IF ShouldShutDown(error_count + 1)
       THEN /\ is_running' = FALSE
            /\ a_pc' = "exited"
            /\ exit_cause' = "max_errors"
       ELSE /\ a_pc' = "sleep_err"
            /\ UNCHANGED <<is_running, exit_cause>>

\* The top of "while self.is_running" up to the first suspension point: the
\* health and trading-condition checks (sleep and continue when the request
\* limit is reached), the four preparation steps, which may raise, and
\* _batch_api_requests handing one _manage_trade per symbol to gather.
IterStart ==
    /\ a_pc = "top"
    /\ IF ~is_running
       THEN /\ a_pc' = "exited"
            /\ exit_cause' = "stopped"
            /\ UNCHANGED <<is_running, error_count, api_request_count, stale,
                           trades, orders, approved, recorded, handled, streak>>
       ELSE LET lim == CheckApiLimit(api_request_count, stale)
            IN  /\ api_request_count' = lim.count
                /\ stale' = lim.stale
                /\ IF ~lim.ok
                   THEN /\ a_pc' = "sleep_skip"
                        /\ streak' = 0
                        /\ UNCHANGED <<is_running, error_count, trades,
                                       orders, approved, recorded, handled, exit_cause>>
                   ELSE \E prepared \in BOOLEAN :
                           IF prepared
                           THEN /\ a_pc' = "gather"
                                /\ trades' = [s \in Symbols |->
                                                [IdleTrade EXCEPT !.pc = "begin"]]
                                /\ orders' = {}
                                /\ approved' = {}
                                /\ recorded' = {}
                                /\ handled' = NoResult
                                /\ UNCHANGED <<is_running, error_count,
                                               streak, exit_cause>>
                           ELSE /\ ErrorBranch
                                /\ UNCHANGED <<trades, orders, approved, recorded, handled>>
    /\ AgentFrame

\* _manage_trade(symbol) from its start to the first request to the exchange:
\* the limit check (an Exception object is returned), the sizing, the
\* prediction, the market data and the reward/risk test (None is returned),
\* then _execute_trade_with_recovery counts the request and sends the order.
\* No statement on this path calls RiskManager.validate_trade.
ManageTradeBegin(s) ==
    /\ a_pc = "gather"
    /\ trades[s].pc = "begin"
    /\ LET lim == CheckApiLimit(api_request_count, stale)
       IN  /\ stale' = lim.stale
           /\ IF ~lim.ok
              THEN /\ trades' = [trades EXCEPT ![s] =
                                   [IdleTrade EXCEPT !.pc = "done", !.result = "exception"]]
                   /\ api_request_count' = lim.count
                   /\ UNCHANGED orders
              ELSE \E signal \in BOOLEAN :
                      IF signal
                      THEN /\ trades' = [trades EXCEPT ![s].pc = "order"]
                           /\ api_request_count' = lim.count + 1
                           /\ orders' = orders \cup {s}
                      ELSE /\ trades' = [trades EXCEPT ![s] =
                                           [IdleTrade EXCEPT !.pc = "done", !.result = "None"]]
                           /\ api_request_count' = lim.count
                           /\ UNCHANGED orders
    /\ UNCHANGED <<a_pc, is_running, error_count, approved, recorded, handled, streak, exit_cause>>
    /\ AgentFrame

\* Mutant of OrderAnswered: the last attempt is recognised one attempt late.
OrderAnsweredOneMore(s) ==
    /\ a_pc = "gather"
    /\ trades[s].pc = "order"
    /\ \E answer \in {"success", "failed", "raised"} :
          trades' = [trades EXCEPT ![s] =
             IF answer = "success" THEN [@ EXCEPT !.pc = "done", !.result = "tuple"]
             ELSE IF answer = "failed" THEN [@ EXCEPT !.pc = "done", !.result = "None"]
             ELSE IF @.attempt = retries
                  THEN [@ EXCEPT !.pc = "done", !.result = "exception"]
                  ELSE [@ EXCEPT !.pc = "retry_wait",
                                 !.wait = WaitTime(trades[s].attempt)]]
    /\ \E late \in BOOLEAN : stale' = (stale \/ late)
    /\ UNCHANGED <<a_pc, is_running, error_count, api_request_count, orders,
                   approved, recorded, handled, streak, exit_cause>>
    /\ AgentFrame

\* The exchange answers the order: success gives the result tuple, another
\* status gives None, an exception is retried after a sleep unless this was
\* the last attempt, in which case it is raised (gather keeps it).
OrderAnswered(s) ==
    /\ a_pc = "gather"
    /\ trades[s].pc = "order"
    /\ \E answer \in {"success", "failed", "raised"} :
          trades' = [trades EXCEPT ![s] =
             IF answer = "success" THEN [@ EXCEPT !.pc = "done", !.result = "tuple"]
             ELSE IF answer = "failed" THEN [@ EXCEPT !.pc = "done", !.result = "None"]
             ELSE IF @.attempt = retries - 1
                  THEN [@ EXCEPT !.pc = "done", !.result = "exception"]
                  ELSE [@ EXCEPT !.pc = "retry_wait",
                                 !.wait = WaitTime(trades[s].attempt)]]
    /\ \E late \in BOOLEAN : stale' = (stale \/ late)
    /\ UNCHANGED <<a_pc, is_running, error_count, api_request_count, orders,
                   approved, recorded, handled, streak, exit_cause>>
    /\ AgentFrame

\* The backoff sleep (1 s, then 2 s) is over: the next attempt counts its
\* request and sends the order again.
OrderRetry(s) ==
    /\ a_pc = "gather"
    /\ trades[s].pc = "retry_wait"
    /\ trades' = [trades EXCEPT ![s].pc = "order", ![s].attempt = @ + 1,
                                ![s].wait = 0]
    /\ api_request_count' = api_request_count + 1
    /\ orders' = orders \cup {s}
    /\ stale' = TRUE
    /\ UNCHANGED <<a_pc, is_running, error_count, approved, recorded, handled, streak, exit_cause>>
    /\ AgentFrame

\* What _batch_api_requests returns: the results that are no exceptions.
KeptResults == {s \in Symbols : trades[s].result # "exception"}

\* The first symbol with a kept result (symbols are numbered in list order).
FirstKept == CHOOSE s \in KeptResults : \A o \in KeptResults : s <= o

\* Mutant of Gathered: the good end of an iteration keeps the error count.
GatheredKeepsCount ==
    /\ a_pc = "gather"
    /\ \A s \in Symbols : trades[s].pc = "done"
    /\ api_request_count' = api_request_count + NSymbols
    /\ IF KeptResults = {}
       THEN /\ streak' = 0
            /\ a_pc' = "sleep_ok"
            /\ UNCHANGED <<error_count, is_running, exit_cause, handled>>
       ELSE /\ ErrorBranch
            /\ handled' = [producer |-> FirstKept, symbol |-> 1]
    /\ UNCHANGED <<stale, trades, orders, approved, recorded>>
    /\ AgentFrame

\* gather has every result: the requests are counted, the exceptions dropped,
\* and the loop over the results runs, pairing the kept results with
\* self.symbols from its start (zip, line 71).  Its first result raises: None
\* cannot be unpacked (line 74), and for a tuple line 75 reads trade_result,
\* a name run_trading_loop never binds.  With no result left the iteration
\* ends well: error_count = 0, sleep(10).
Gathered ==
    /\ a_pc = "gather"
    /\ \A s \in Symbols : trades[s].pc = "done"
    /\ api_request_count' = api_request_count + NSymbols
    /\ IF KeptResults = {}
       THEN /\ error_count' = 0
            /\ streak' = 0
            /\ a_pc' = "sleep_ok"
            /\ UNCHANGED <<is_running, exit_cause, handled>>
       ELSE /\ ErrorBranch
            /\ handled' = [producer |-> FirstKept, symbol |-> 1]
    /\ UNCHANGED <<stale, trades, orders, approved, recorded>>
    /\ AgentFrame

\* sleep(10) after a good iteration, sleep(60) after a failed or skipped one.
SleepDone ==
    /\ a_pc \in {"sleep_ok", "sleep_err", "sleep_skip"}
    /\ a_pc' = "top"
    /\ stale' = TRUE
    /\ UNCHANGED <<is_running, error_count, api_request_count, trades,
                   orders, approved, recorded, handled, streak, exit_cause>>
    /\ AgentFrame

\* CancelledError reaches the loop at one of its awaits: break, or, from the
\* sleep of the except branch, out of run_trading_loop.
LoopCancelled ==
    /\ a_pc \in {"gather", "sleep_ok", "sleep_err", "sleep_skip"}
    /\ a_pc' = "exited"
    /\ exit_cause' = "cancelled"
    /\ UNCHANGED <<is_running, error_count, api_request_count, stale, trades,
                   orders, approved, recorded, handled, streak>>
    /\ AgentFrame

AgentNext ==
    \/ IterStart
    \/ \E s \in Symbols : ManageTradeBegin(s)
    \/ \E s \in Symbols : OrderAnswered(s)
    \/ \E s \in Symbols : OrderRetry(s)
    \/ Gathered
    \/ SleepDone
    \/ LoopCancelled


\* ======================================================== the risk gate
\* Amounts are whole dollars.  A comparison with a fraction of the capital is
\* multiplied out by 100, and the levels written on a trade are kept in
\* cents, so that every value stays an integer.
Capitals == {0, 100, 1000}
Sides == {"buy", "sell"}
Quantities == {1, 2}
Prices == {5, 20, 25, 30, 50}
ClosePnls == {-25, -5, 10}

\* A proposed trade before validate_trade has written its levels.
Proposal(side, quantity, price) ==
    [side |-> side, quantity |-> quantity, price |-> price,
     stop_loss |-> 0, take_profit |-> 0]

\* given: the trade as the caller passed it; trade: the same dict after the
\* call.
NoVerdict ==
    [asked |-> FALSE, approved |-> FALSE, warning |-> "none",
     given |-> Proposal("none", 0, 0), trade |-> Proposal("none", 0, 0)]

Dates == 1..MaxDays

RECURSIVE SumFrom(_, _)
SumFrom(rows, d) == IF d > MaxDays THEN 0 ELSE rows[d] + SumFrom(rows, d + 1)

\* Mutant of total_loss: the query has no date condition.
total_loss_any_date(rows, today) == SumFrom(rows, 1)

\* calculate_daily_loss's query: SUM(pnl) over the rows with
\* timestamp >= CURRENT_DATE and pnl < 0; 0 stands for NULL (no such row).
total_loss(rows, today) == SumFrom(rows, today)

\* What the query returns now.
r_loss_sum == total_loss(r_rows, r_today)

\* get_capital: the stored capital, or 500 when the user has no row or the
\* stored value is NULL or 0.
get_capital(stored) == IF stored # 0 THEN stored ELSE default_capital

\* calculate_daily_loss: abs(total_loss), or 0 when the sum is NULL or 0.
calculate_daily_loss(sum) ==
    IF sum # 0 THEN (IF sum < 0 THEN -sum ELSE sum) ELSE 0

\* Mutant of validate_trade: the size check also rejects a trade exactly at
\* the limit.
validate_trade_size_inclusive(stored, sum, trade) ==
    LET capital == get_capital(stored)
        trade_value == trade.quantity * trade.price
        daily_loss == calculate_daily_loss(sum)
    IN  IF trade_value * 100 >= capital * max_position_size
        THEN [asked |-> TRUE, approved |-> FALSE,
              warning |-> "position_size", given |-> trade, trade |-> trade]
        ELSE IF daily_loss * 100 >= capital * max_daily_loss
        THEN [asked |-> TRUE, approved |-> FALSE,
              warning |-> "daily_loss", given |-> trade, trade |-> trade]
        ELSE [asked |-> TRUE, approved |-> TRUE, warning |-> "none",
              given |-> trade,
              trade |-> [trade EXCEPT
                  !.stop_loss = trade.price * (100 - risk_stop_loss),
                  !.take_profit = trade.price * (100 + risk_take_profit)]]

\* Mutant of validate_trade: the daily-loss check lets a loss exactly at the
\* limit pass.
validate_trade_loss_exclusive(stored, sum, trade) ==
    LET capital == get_capital(stored)
        trade_value == trade.quantity * trade.price
        daily_loss == calculate_daily_loss(sum)
    IN  IF trade_value * 100 > capital * max_position_size
        THEN [asked |-> TRUE, approved |-> FALSE,
              warning |-> "position_size", given |-> trade, trade |-> trade]
        ELSE IF daily_loss * 100 > capital * max_daily_loss
        THEN [asked |-> TRUE, approved |-> FALSE,
              warning |-> "daily_loss", given |-> trade, trade |-> trade]
        ELSE [asked |-> TRUE, approved |-> TRUE, warning |-> "none",
              given |-> trade,
              trade |-> [trade EXCEPT
                  !.stop_loss = trade.price * (100 - risk_stop_loss),
                  !.take_profit = trade.price * (100 + risk_take_profit)]]

\* Mutant of validate_trade: the levels are written before the checks.
validate_trade_levels_first(stored, sum, trade) ==
    LET capital == get_capital(stored)
        trade_value == trade.quantity * trade.price
        daily_loss == calculate_daily_loss(sum)
        marked == [trade EXCEPT
                     !.stop_loss = trade.price * (100 - risk_stop_loss),
                     !.take_profit = trade.price * (100 + risk_take_profit)]
    IN  IF trade_value * 100 > capital * max_position_size
        THEN [asked |-> TRUE, approved |-> FALSE,
              warning |-> "position_size", given |-> trade, trade |-> marked]
        ELSE IF daily_loss * 100 >= capital * max_daily_loss
        THEN [asked |-> TRUE, approved |-> FALSE,
              warning |-> "daily_loss", given |-> trade, trade |-> marked]
        ELSE [asked |-> TRUE, approved |-> TRUE, warning |-> "none",
              given |-> trade, trade |-> marked]

\* validate_trade: the size check, then the daily-loss check, then the
\* levels are written on the trade: price * (1 - 0.02), price * (1 + 0.05),
\* whatever the side.  The warning is the one the call logs.
validate_trade(stored, sum, trade) ==
    LET capital == get_capital(stored)
        trade_value == trade.quantity * trade.price
        daily_loss == calculate_daily_loss(sum)
    IN  IF trade_value * 100 > capital * max_position_size
        THEN [asked |-> TRUE, approved |-> FALSE,
              warning |-> "position_size", given |-> trade, trade |-> trade]
        ELSE IF daily_loss * 100 >= capital * max_daily_loss
        THEN [asked |-> TRUE, approved |-> FALSE,
              warning |-> "daily_loss", given |-> trade, trade |-> trade]
        ELSE [asked |-> TRUE, approved |-> TRUE, warning |-> "none",
              given |-> trade,
              trade |-> [trade EXCEPT
                  !.stop_loss = trade.price * (100 - risk_stop_loss),
                  !.take_profit = trade.price * (100 + risk_take_profit)]]

\* The gate of a user with stored capital c, before any trade of the day.
RiskStart(c) ==
    /\ r_capital = c
    /\ r_rows = [d \in Dates |-> 0]
    /\ r_today = 1
    /\ r_loss_run = 0
    /\ r_verdict = NoVerdict

\* A call of validate_trade(user_id, trade).
ValidateTradeCall ==
    /\ \E side \in Sides, quantity \in Quantities, price \in Prices :
          r_verdict' = validate_trade(r_capital, r_loss_sum,
                                      Proposal(side, quantity, price))
    /\ UNCHANGED <<r_capital, r_rows, r_today, r_loss_run>>
    /\ RiskFrame

\* A closed trade of the user is written to the trades table with its pnl:
\* a negative one joins the sum calculate_daily_loss reads.
RecordClose ==
    /\ \E pnl \in ClosePnls :
          IF pnl < 0
          THEN /\ r_rows[r_today] + pnl >= -MaxDailyLoss
               /\ r_rows' = [r_rows EXCEPT ![r_today] = @ + pnl]
               /\ r_loss_run' = IF r_loss_run < MaxLossRun
                                THEN r_loss_run + 1 ELSE r_loss_run
          ELSE /\ r_loss_run' = 0
               /\ UNCHANGED r_rows
    /\ r_verdict' = NoVerdict
    /\ UNCHANGED <<r_capital, r_today>>
    /\ RiskFrame

\* CURRENT_DATE moves on; the rows stay as they were written.
DayRollover ==
    /\ r_today < MaxDays
    /\ r_today' = r_today + 1
    /\ r_verdict' = NoVerdict
    /\ UNCHANGED <<r_capital, r_rows, r_loss_run>>
    /\ RiskFrame

RiskNext ==
    \/ ValidateTradeCall
    \/ RecordClose
    \/ DayRollover


\* ============================================ execute_signal (one symbol)
\* Prices are in tenths of a dollar (1000 is $100.0, 1019 is $101.9) and
\* confidences in percent.
SignalPrices == {970, 980, 1000, 1019, 1030, 1050}
Confidences == {50, 65, 80}
SignalKinds == {"BUY", "SELL"}

NoSignal ==
    [seen |-> FALSE, price |-> 0, confidence |-> 0, signal |-> "none",
     held |-> 0, peak |-> 0, action |-> "none"]

\* TradingBot.execute_trade, whose class (enhanced_trading_bot_complete) is
\* not part of the sources: by its callers, a BUY enters the symbol in
\* positions with the current price as entry_price and a SELL of the whole
\* position removes the entry.
execute_trade(side, price) == IF side = "BUY" THEN price ELSE 0

\* What execute_signal does with a signal while the entry price of the
\* symbol's position is held (0: no position): the confidence threshold
\* first, then, for a position, stop loss, take profit and a SELL signal in
\* this order, and without one a BUY signal opens it.
SignalAction(held, price, confidence, signal) ==
    IF confidence < min_confidence THEN "SKIP"
    ELSE IF held # 0
    THEN IF (price - held) * 100 <= -stop_loss_pct * held THEN "STOP_LOSS"
         ELSE IF (price - held) * 100 >= take_profit_pct * held
              THEN "TAKE_PROFIT"
         ELSE IF signal = "SELL" THEN "SIGNAL"
         ELSE "HOLD"
    ELSE IF signal = "BUY" THEN "OPEN" ELSE "NONE"

SignalStart ==
    /\ position = 0
    /\ peak = 0
    /\ sig_last = NoSignal

\* One call of execute_signal by run_trading_loop.  No await of it, of
\* open_position or of close_position suspends (the exchange client is
\* synchronous), so the call is one step.
ExecuteSignal ==
    /\ \E price \in SignalPrices, confidence \in Confidences,
          signal \in SignalKinds :
          LET action == SignalAction(position, price, confidence, signal)
              seen_peak == IF position # 0 /\ price > peak THEN price ELSE peak
          IN  /\ sig_last' = [seen |-> TRUE, price |-> price,
                              confidence |-> confidence, signal |-> signal,
                              held |-> position, peak |-> peak,
                              action |-> action]
              /\ IF action \in {"STOP_LOSS", "TAKE_PROFIT", "SIGNAL"}
                 THEN /\ position' = execute_trade("SELL", price)
                      /\ peak' = 0
                 ELSE IF action = "OPEN"
                 THEN /\ position' = execute_trade("BUY", price)
                      /\ peak' = price
                 ELSE /\ UNCHANGED position
                      /\ peak' = seen_peak
    /\ SigFrame

SignalNext == ExecuteSignal

\* ====================================================== the trade ledger
LedgerStart ==
    /\ trade_rows = [u \in Users |-> 0]
    /\ total_trades = [i \in 1..MaxInst |-> 0]

\* save_trade for a trade of user u (the order route calls it after every
\* placed order): the Trade row is added and committed; then the user's
\* BotInstance with status "running" is looked up and, if there is one, its
\* total_trades is counted up and committed.  The second part can fail after
\* the first commit.
SaveTrade(u) ==
    /\ trade_rows[u] < MaxTrades
    /\ trade_rows' = [trade_rows EXCEPT ![u] = @ + 1]
    /\ \E second_ok \in BOOLEAN, j \in First(RunningOf(u)) :
          total_trades' = IF second_ok /\ j # 0
                          THEN [total_trades EXCEPT ![j] = @ + 1]
                          ELSE total_trades
    /\ last' = NoAnswer
    /\ UNCHANGED <<insts, starts, tasks, active_bots, bot_tasks, bot_status,
                   lock, stops, stop_all>>
    /\ LedgerFrame

LedgerNext ==
    \/ SupNext
    \/ \E u \in Users : SaveTrade(u)

\* ====================================================== update_position
\* Values are whole dollars; value stands for amount * price.
PosSymbols == {"USDT", "BTC/USDT", "BTC"}
PosValues == {400, 700}
StartCash == {0, 500, 1000}

NoRow == [name |-> "none", value |-> 0]
NoPortfolio == [exists |-> FALSE, cash |-> 0]

RowIds == 1..MaxRows
FreeIds(tbl) == {i \in RowIds : tbl[i] = NoRow}

\* The row ids of the assets named name.
RowsNamed(tbl, name) == {i \in RowIds : tbl[i].name = name}

\* INSERT INTO assets: the row takes the lowest free id.
Insert(tbl, name, value) ==
    LET id == CHOOSE i \in FreeIds(tbl) : \A j \in FreeIds(tbl) : i <= j
    IN  [tbl EXCEPT ![id] = [name |-> name, value |-> value]]

\* UPDATE assets SET value = v WHERE id = id: no row, nothing is written.
SetValue(tbl, id, v) ==
    IF tbl[id] = NoRow THEN tbl ELSE [tbl EXCEPT ![id].value = v]

\* DELETE FROM assets WHERE id = id
Delete(tbl, id) == [tbl EXCEPT ![id] = NoRow]

\* "USDT" not in symbol
WithoutUSDT(symbol) == symbol = "BTC"

\* hedge_symbol: "ETH/USDT" if "BTC" in symbol else "BTC/USDT"
HedgeSymbol(symbol) ==
    IF symbol \in {"BTC/USDT", "BTC"} THEN "ETH/USDT" ELSE "BTC/USDT"

\* Lines 6-19: the portfolio and its USDT asset, each inserted (and
\* committed) when it is missing.
Fetched(pf) == IF pf.exists THEN pf ELSE [exists |-> TRUE, cash |-> start_cash]
WithUSDT(tbl) ==
    IF RowsNamed(tbl, "USDT") = {} THEN Insert(tbl, "USDT", 0) ELSE tbl

\* The buy branch (lines 26-41) on table tbl with the fetched rows usdt and
\* traded (0: no row): the table after it.
BuyAssets(tbl, usdt, traded, symbol, value) ==
    LET a2 == IF traded = 0 THEN Insert(tbl, symbol, value)
              ELSE SetValue(tbl, traded, tbl[traded].value + value)
        a3 == IF traded # 0 THEN Delete(a2, traded)
              ELSE SetValue(a2, usdt, a2[usdt].value - value)
    IN  SetValue(a3, usdt, tbl[usdt].value + value)

\* The sell branch (lines 43-58).
SellAssets(tbl, usdt, traded, symbol, value) ==
    LET a2 == IF traded # 0 /\ tbl[traded].value >= value
              THEN IF tbl[traded].value - value <= 0
                   THEN Delete(tbl, traded)
                   ELSE SetValue(tbl, traded, tbl[traded].value - value)
              ELSE tbl
        a3 == SetValue(a2, usdt, a2[usdt].value + value)
    IN  IF WithoutUSDT(symbol)
        THEN Insert(a3, HedgeSymbol(symbol), -(value \div 2))
        ELSE a3

\* "if not traded_asset or traded_asset[1] < value": the buy is paid from
\* the cash.
CashNeeded(tbl, traded, value) == traded = 0 \/ tbl[traded].value < value

\* Mutant of Insufficient: the test of line 27 is gone.
InsufficientNever(cash, value) == FALSE

\* "if cash < value" (line 27)
Insufficient(cash, value) == cash < value

\* The tables before any call: pf is the portfolio row, or NoPortfolio.
PositionStart(pf) ==
    /\ portfolio = pf
    /\ assets = [i \in RowIds |-> NoRow]
    /\ pos_last = [called |-> FALSE, raised |-> FALSE]

\* update_position(user_id, symbol, amount, trade_type): one call, from its
\* first query to the commit or the ValueError.  fetchone takes any row that
\* matches.
update_position(symbol, value, trade_type) ==
    LET pf == Fetched(portfolio)
        a1 == WithUSDT(assets)
    IN  \E usdt \in RowsNamed(a1, "USDT"), traded \in First(RowsNamed(a1, symbol)) :
          IF trade_type = "buy"
          THEN IF CashNeeded(a1, traded, value) /\ Insufficient(pf.cash, value)
               THEN /\ portfolio' = pf
                    /\ assets' = a1
                    /\ pos_last' = [called |-> TRUE, raised |-> TRUE]
               ELSE /\ portfolio' =
                          IF CashNeeded(a1, traded, value)
                          THEN [pf EXCEPT !.cash = @ - value] ELSE pf
                    /\ assets' = BuyAssets(a1, usdt, traded, symbol, value)
                    /\ pos_last' = [called |-> TRUE, raised |-> FALSE]
          ELSE /\ portfolio' = pf
               /\ assets' = SellAssets(a1, usdt, traded, symbol, value)
               /\ pos_last' = [called |-> TRUE, raised |-> FALSE]

\* A call of update_position; the tables have room for the rows it inserts
\* and the values stay within MaxAssetValue.
UpdatePositionCall ==
    /\ Cardinality(FreeIds(assets)) >= 2
    /\ \E symbol \in PosSymbols, value \in PosValues,
          trade_type \in {"buy", "sell"} :
          update_position(symbol, value, trade_type)
    /\ \A i \in RowIds : assets'[i].value <= MaxAssetValue
    /\ PosFrame

PositionNext == UpdatePositionCall

\* ====================================================== the circuit breaker
\* wrapper reads and writes self.state without the lock (lines 24-26); the
\* bodies of _on_success and _on_failure run under it, each as one step.
Callers == 1..NCallers

\* CircuitBreaker.__init__
BreakerStart ==
    /\ cb_state = "CLOSED"
    /\ failure_count = 0
    /\ last_failure_time = "None"
    /\ c_pc = [c \in Callers |-> "idle"]

\* _should_attempt_reset: a failure is recorded and recovery_timeout has
\* passed since.
should_attempt_reset == last_failure_time = "old"

\* wrapper is entered: "if self.state == CircuitState.OPEN" (line 24).
CallBegin(c) ==
    /\ c_pc[c] = "idle"
    /\ c_pc' = [c_pc EXCEPT ![c] = IF cb_state = "OPEN" THEN "open_seen"
                                   ELSE "admitted"]
    /\ UNCHANGED <<cb_state, failure_count, last_failure_time>>
    /\ BreakerFrame

\* "if self._should_attempt_reset()" (line 25); else the call is refused
\* (line 28).
CheckReset(c) ==
    /\ c_pc[c] = "open_seen"
    /\ c_pc' = [c_pc EXCEPT ![c] = IF should_attempt_reset THEN "reset"
                                   ELSE "idle"]
    /\ UNCHANGED <<cb_state, failure_count, last_failure_time>>
    /\ BreakerFrame

\* "self.state = CircuitState.HALF_OPEN" (line 26)
SetHalfOpen(c) ==
    /\ c_pc[c] = "reset"
    /\ cb_state' = "HALF_OPEN"
    /\ c_pc' = [c_pc EXCEPT ![c] = "admitted"]
    /\ UNCHANGED <<failure_count, last_failure_time>>
    /\ BreakerFrame

\* "result = func(*args, **kwargs)" (line 31): the wrapped function is
\* invoked.
Invoke(c) ==
    /\ c_pc[c] = "admitted"
    /\ c_pc' = [c_pc EXCEPT ![c] = "func"]
    /\ UNCHANGED <<cb_state, failure_count, last_failure_time>>
    /\ BreakerFrame

\* func returns: _on_success (lines 44-47), then the result is returned.
FuncSucceeds(c) ==
    /\ c_pc[c] = "func"
    /\ failure_count' = 0
    /\ cb_state' = "CLOSED"
    /\ c_pc' = [c_pc EXCEPT ![c] = "idle"]
    /\ UNCHANGED last_failure_time
    /\ BreakerFrame

\* func raises: _on_failure (lines 49-54), then the exception is raised.
FuncFails(c) ==
    /\ c_pc[c] = "func"
    /\ failure_count < MaxFailures
    /\ failure_count' = failure_count + 1
    /\ last_failure_time' = "recent"
    /\ cb_state' = IF failure_count + 1 >= failure_threshold THEN "OPEN"
                   ELSE cb_state
    /\ c_pc' = [c_pc EXCEPT ![c] = "idle"]
    /\ BreakerFrame

\* recovery_timeout has passed since last_failure_time.
TimeoutPasses ==
    /\ last_failure_time = "recent"
    /\ last_failure_time' = "old"
    /\ UNCHANGED <<cb_state, failure_count, c_pc>>
    /\ BreakerFrame

BreakerNext ==
    \/ \E c \in Callers : CallBegin(c)
    \/ \E c \in Callers : CheckReset(c)
    \/ \E c \in Callers : SetHalfOpen(c)
    \/ \E c \in Callers : Invoke(c)
    \/ \E c \in Callers : FuncSucceeds(c)
    \/ \E c \in Callers : FuncFails(c)
    \/ TimeoutPasses

\* ------------------------------------------------------- specifications
Init ==
    /\ SupInit
    /\ AgentStart(FALSE)
    /\ RiskStart(default_capital)
    /\ SignalStart
    /\ LedgerStart
    /\ PositionStart(NoPortfolio)
    /\ BreakerStart

Next == SupNext

Spec == Init /\ [][Next]_vars

\* The event loop runs every coroutine that is ready: each management call
\* and each task step that stays enabled is eventually taken.  Requests and
\* an agent leaving its loop by itself are not owed.
FairSpec ==
    /\ Spec
    /\ \A i \in 1..MaxInst : WF_vars(StartStep(i))
    /\ \A k \in StopKeys : WF_vars(StopStep(k))
    /\ WF_vars(StopAllGathered)
    /\ \A t \in 1..MaxInst : WF_vars(TaskStep(t))

\* One agent running its loop, the supervisor left aside.
AgentInit ==
    /\ SupInit
    /\ \E st \in BOOLEAN : AgentStart(st)
    /\ RiskStart(default_capital)
    /\ SignalStart
    /\ LedgerStart
    /\ PositionStart(NoPortfolio)
    /\ BreakerStart

AgentSpec == AgentInit /\ [][AgentNext]_vars

\* The risk gate of one user, for every stored capital.
RiskInit ==
    /\ SupInit
    /\ AgentStart(FALSE)
    /\ \E c \in Capitals : RiskStart(c)
    /\ SignalStart
    /\ LedgerStart
    /\ PositionStart(NoPortfolio)
    /\ BreakerStart

RiskSpec == RiskInit /\ [][RiskNext]_vars

\* execute_signal called again and again for one symbol.
SignalSpec == Init /\ [][SignalNext]_vars

\* The supervisor together with the order route's save_trade.
LedgerSpec == Init /\ [][LedgerNext]_vars

\* update_position called again and again for one user, who starts without a
\* portfolio row or with one holding some cash.
PositionInit ==
    /\ SupInit
    /\ AgentStart(FALSE)
    /\ RiskStart(default_capital)
    /\ SignalStart
    /\ LedgerStart
    /\ \E pf \in {NoPortfolio} \cup {[exists |-> TRUE, cash |-> c] : c \in StartCash} :
          PositionStart(pf)
    /\ BreakerStart

PositionSpec == PositionInit /\ [][PositionNext]_vars

\* Threads calling through one CircuitBreaker.
BreakerSpec == Init /\ [][BreakerNext]_vars

\* =================================================================== claims
\* Rows of user u that count as an active bot: status starting or running.
ActiveRows(u) ==
    {i \in InstIds : insts[i].user = u
                     /\ insts[i].status \in {"starting", "running"}}

\* Tasks of user u that have been spawned and have not finished.
AliveTasks(u) ==
    {t \in InstIds : insts[t].user = u
                     /\ tasks[t].pc \in {"created", "loop", "cleanup_wait"}}

\* C1: in every reachable state each user has at most one BotInstance whose
\* persisted status is "starting" or "running".
C1_AtMostOneActiveInstance ==
    \A u \in Users : Cardinality(ActiveRows(u)) <= 1

\* A stop_user_bot call is inside the function: it has been entered and has
\* not returned.
StopPending(k) == stops[k].pc \in {"wait_lock", "await_task", "notify"}

\* C3: a stop_user_bot call that has cancelled an agent task executing its
\* trading loop and awaits it eventually returns.
C3_StopReturns ==
    \A k \in StopKeys :
        (stops[k].pc = "await_task" /\ tasks[stops[k].task].pc = "loop")
            ~> ~StopPending(k)

\* C4: whenever stop_user_bot returns True for a user, the BotInstance of the
\* task it awaited has persisted status "stopped" and the user has no entry
\* left in active_bots, bot_tasks and bot_status.
C4_StopTrueMeansStopped ==
    [][\A k \in StopKeys :
          (stops[k].pc = "notify" /\ stops'[k].pc # "notify")
              => /\ insts'[stops[k].task].status = "stopped"
                 /\ active_bots'[k[2]] = 0
                 /\ bot_tasks'[k[2]] = 0
                 /\ bot_status'[k[2]] = "none"]_vars

\* The step in which stop_user_bot, called for a user with no entry in
\* bot_tasks, owns the lock and runs.
StopWithoutEntry(k) ==
    /\ bot_tasks[k[2]] = 0
    /\ \/ k[1] = "route" /\ RouteStop(k[2])
       \/ k[1] = "gather" /\ GatherStopBegin(k[2])
       \/ StopGranted(k)
    /\ stops'[k].pc # "wait_lock"

\* C5: stop_user_bot for a user with no entry in the task registry returns
\* False and leaves the registry, every task and every BotInstance unchanged
\* (so a repeated call meets the same state and gives the same result).
C5_StopNoEntryIsNoOp ==
    [][\A k \in StopKeys :
          StopWithoutEntry(k)
              => /\ ~StopPending(k)'
                 /\ k[1] = "route" => last' = Answer("stop", k[2], "false")
                 /\ k[1] = "gather" => stops'[k].pc = "returned_false"
                 /\ UNCHANGED <<insts, tasks, active_bots, bot_tasks,
                                bot_status>>]_vars

\* C5's case: the route's stop_user_bot has just answered False for a user
\* without an entry.
C5_Witness ==
    \E u \in Users : last = Answer("stop", u, "false") /\ bot_tasks[u] = 0

\* C6: a StartBot request made while the user has a BotInstance in status
\* starting or running is answered with an error, creates no BotInstance,
\* queues no start_bot, spawns no task and leaves the registry unchanged.
C6_StartRejectedWhileActive ==
    [][\A u \in Users :
          (ActiveRows(u) # {} /\ (RouteStartRejected(u) \/ RouteStartAccepted(u)))
              => /\ last' = Answer("route_start", u, "error")
                 /\ UNCHANGED <<insts, starts, tasks, active_bots, bot_tasks,
                                bot_status>>]_vars

\* C6's case: a StartBot request of a user with an active BotInstance has
\* just been rejected.
C6_Witness ==
    \E u \in Users :
        last = Answer("route_start", u, "error") /\ ActiveRows(u) # {}

\* C7: at any time at most one agent task per user is alive.
C7_AtMostOneAliveTask ==
    \A u \in Users : Cardinality(AliveTasks(u)) <= 1

\* C8: stop_all_bots eventually returns.
C8_StopAllReturns == (stop_all = "gather") ~> (stop_all = "done")

\* The user a management call works for, and whether the call is suspended
\* (at I/O, at a notification or at "await task").
HolderUser(h) == IF h[1] = "start" THEN insts[h[2]].user ELSE h[2]

HolderSuspended(h) ==
    \/ h[1] = "start" /\ starts[h[2]] \in {"init", "notify"}
    \/ h \in StopKeys /\ stops[h].pc \in {"await_task", "notify"}

WaitingCalls ==
    {lock.waiters[n] : n \in 1..Len(lock.waiters)} \ {TaskH(t) : t \in InstIds}

\* C9: no start_bot or stop_user_bot call waits for the registry lock while
\* a management call for a different user holds it across a suspension point.
C9_LockNotHeldAcrossSuspension ==
    \A w \in WaitingCalls :
        ~(HolderSuspended(lock.holder)
          /\ HolderUser(lock.holder) # HolderUser(w))


\* C2: an order reaches the exchange only for a proposal that
\* RiskManager.validate_trade approved in the same iteration.
C2_OrderOnlyAfterApproval == orders \subseteq approved

\* C10: the loop is left at the 5th failure in a row and at no earlier one,
\* no iteration follows it: a sleep of the except branch is only entered
\* with fewer than max_errors failures, max_errors failures in a row mean the
\* loop has been left, the loop is left for errors only then, and once left
\* it stays left.
C10_FifthFailureEndsLoop ==
    /\ [](/\ streak <= max_errors
          /\ streak = max_errors => a_pc = "exited" /\ exit_cause = "max_errors"
          /\ exit_cause = "max_errors" => streak = max_errors
          /\ a_pc = "sleep_err" => streak \in 1..(max_errors - 1))
    /\ [][a_pc = "exited" => a_pc' = "exited"]_vars

\* C10's case: the fifth failure in a row has ended the loop.
C10_Witness ==
    a_pc = "exited" /\ exit_cause = "max_errors" /\ streak = max_errors

\* C11: an agent that left its loop by itself at the consecutive-error
\* limit ends with BotInstance status "error", and a status "error" is never
\* overwritten by "stopped".
C11_ErrorLimitEndsInError ==
    [][\A t \in 1..MaxInst :
          /\ (TaskLoopExit(t) /\ tasks'[t].pc = "done")
                => insts'[t].status = "error"
          /\ (t \in InstIds /\ insts[t].status = "error")
                => insts'[t].status # "stopped"]_vars

\* Notional of the trade of the last validate_trade call.
Notional == r_verdict.trade.quantity * r_verdict.trade.price

\* The capital and the daily loss validate_trade works with.
Capital == get_capital(r_capital)
DailyLoss == calculate_daily_loss(r_loss_sum)

\* C12: validate_trade approves no trade whose notional is greater than
\* max_position_size of the capital (the one get_capital returns), and its
\* size check rejects no trade whose notional is at or below that limit.
C12_SizeLimit ==
    r_verdict.asked =>
        /\ r_verdict.approved
              => Notional * 100 <= max_position_size * Capital
        /\ Notional * 100 <= max_position_size * Capital
              => r_verdict.warning # "position_size"

\* C12's case: with capital 1000 a trade of notional 50, exactly 5% of it,
\* has been approved.
C12_Witness ==
    /\ r_verdict.approved
    /\ r_capital = 1000
    /\ Notional * 100 = max_position_size * Capital

\* C13: while today's realized loss is at least max_daily_loss of the
\* capital (the one get_capital returns), validate_trade rejects every trade.
C13_DailyLossLimit ==
    (r_verdict.asked /\ DailyLoss * 100 >= max_daily_loss * Capital)
        => ~r_verdict.approved

\* C13's case: a trade within the size limit has been rejected because the
\* day's loss is exactly at the limit.
C13_Witness ==
    /\ r_verdict.asked
    /\ DailyLoss * 100 = max_daily_loss * Capital
    /\ Notional * 100 <= max_position_size * Capital
    /\ ~r_verdict.approved
    /\ r_verdict.warning = "daily_loss"

\* C14: after 5 losing closes in a row and until a winning close, every
\* validate_trade call is rejected.
C14_ConsecutiveLosses ==
    (r_verdict.asked /\ r_loss_run >= 5) => ~r_verdict.approved

\* C15: a proposal over the size limit made while the daily-loss limit is
\* reached is rejected with the daily-loss warning.
C15_DailyLossCheckedFirst ==
    (/\ r_verdict.asked
     /\ Notional * 100 > max_position_size * Capital
     /\ DailyLoss * 100 >= max_daily_loss * Capital)
        => r_verdict.warning = "daily_loss"

\* C16: a call of execute_signal whose price is at or below the stop-loss
\* level of the open position closes it with reason STOP_LOSS, whatever the
\* signal's confidence and direction.
C16_StopLossAlwaysCloses ==
    (/\ sig_last.seen
     /\ sig_last.held # 0
     /\ sig_last.price * 100 <= sig_last.held * (100 - stop_loss_pct))
        => sig_last.action = "STOP_LOSS"

\* C17: once the price has been more than 2% above the entry price, a price
\* at or below 99% of the highest price seen since (and above the stop-loss
\* level) closes the position with reason TRAILING_STOP.
C17_TrailingStopCloses ==
    (/\ sig_last.seen
     /\ sig_last.held # 0
     /\ (sig_last.peak - sig_last.held) * 100 > 2 * sig_last.held
     /\ sig_last.price * 100 <= sig_last.peak * 99
     /\ sig_last.price * 100 > sig_last.held * (100 - stop_loss_pct))
        => sig_last.action = "TRAILING_STOP"

\* total_trades summed over the first n BotInstance rows that belong to u.
RECURSIVE CountedFor(_, _)
CountedFor(u, n) ==
    IF n = 0 THEN 0
    ELSE (IF insts[n].user = u THEN total_trades[n] ELSE 0)
         + CountedFor(u, n - 1)

\* C18: every persisted Trade row of a user is counted in total_trades of a
\* BotInstance of that user, exactly once.
C18_TradesAndCounterAgree ==
    \A u \in Users : trade_rows[u] = CountedFor(u, Len(insts))

\* C19: when run_trading_loop has ended, the position update of every order
\* the exchange executed has been written.
C19_ExecutedOrdersRecorded ==
    a_pc = "exited" =>
        \A s \in Symbols : trades[s].result = "tuple" => s \in recorded

\* C20: an approved trade carries levels on the right sides of its price:
\* stop_loss < price < take_profit for a buy, take_profit < price <
\* stop_loss for a sell (levels in cents).
C20_LevelsMatchSide ==
    r_verdict.approved =>
        LET t == r_verdict.trade
        IN  IF t.side = "buy"
            THEN t.stop_loss < t.price * 100 /\ t.price * 100 < t.take_profit
            ELSE t.take_profit < t.price * 100 /\ t.price * 100 < t.stop_loss

\* C23: error_count is the number of iterations that raised since the last
\* one that ended well: a raising iteration adds exactly one, an iteration
\* that ends well leaves it at zero, no other step changes it, and the loop
\* is left for errors only with max_errors such failures.
C23_ErrorCountIsStreak ==
    /\ [](/\ error_count = streak
          /\ a_pc = "sleep_ok" => error_count = 0
          /\ exit_cause = "max_errors" => error_count = max_errors)
    /\ [][\/ error_count' = error_count
          \/ error_count' = error_count + 1 /\ a_pc' \in {"sleep_err", "exited"}
          \/ error_count' = 0 /\ a_pc' = "sleep_ok"]_vars

\* C23's case: failures have been counted up to one below the limit.
C23_Witness == a_pc = "sleep_err" /\ error_count = max_errors - 1

\* C24: _execute_trade_with_recovery sends an order at most retries times;
\* it waits 1 s after the first failed attempt and 2 s after the second,
\* never after the last, whose exception it raises; an answer that is no
\* exception ends it at once, and an ended call sends nothing more.
C24_BoundedRetries ==
    /\ [](\A s \in Symbols :
            /\ trades[s].attempt \in 0..(retries - 1)
            /\ trades[s].pc = "retry_wait" =>
                  /\ trades[s].attempt < retries - 1
                  /\ trades[s].attempt = 0 => trades[s].wait = 1
                  /\ trades[s].attempt = 1 => trades[s].wait = 2
            /\ trades[s].pc # "retry_wait" => trades[s].wait = 0)
    /\ [][\A s \in Symbols :
            /\ (trades[s].pc = "order" /\ trades'[s].result = "exception")
                  => trades[s].attempt = retries - 1
            /\ (trades[s].pc = "order" /\ trades[s].attempt = retries - 1
                  /\ trades'[s] # trades[s]) => trades'[s].pc = "done"
            /\ (trades[s].pc = "done" /\ a_pc = "gather" /\ a_pc' = "gather")
                  => trades'[s] = trades[s]]_vars

\* C24's case: the third attempt has failed and the call has given up.
C24_Witness ==
    \E s \in Symbols :
        /\ trades[s].pc = "done"
        /\ trades[s].result = "exception"
        /\ trades[s].attempt = retries - 1

\* C27: the result the loop over the results takes up is paired with the
\* symbol whose _manage_trade call produced it.
C27_ResultKeepsItsSymbol == handled.producer = handled.symbol

\* C28: api_request_count never exceeds api_request_limit.
C28_RequestCountWithinLimit == api_request_count <= api_request_limit

\* C25: the cleanup of a finishing task removes no registry entry that names
\* another task, and stop_user_bot answers False only when no agent task of
\* that user is alive.
C25_CleanupRemovesOwnEntries ==
    /\ [][\A t \in InstIds :
            (tasks[t].pc \in {"loop", "cleanup_wait"} /\ tasks'[t].pc = "done")
               => \A u \in Users :
                     bot_tasks[u] # t => bot_tasks'[u] = bot_tasks[u]]_vars
    /\ [](\A u \in Users :
            last = Answer("stop", u, "false") => AliveTasks(u) = {})

\* C26: a start_bot call that fails spawns no task, leaves the registry as
\* it was and changes the status of no other BotInstance.
C26_FailedStartChangesNothing ==
    [][\A i \in InstIds :
          (/\ starts[i] \in {"queued", "wait_lock", "init"}
           /\ starts'[i] = "done"
           /\ insts[i].status # "running")
             => /\ tasks' = tasks
                /\ active_bots' = active_bots
                /\ bot_tasks' = bot_tasks
                /\ bot_status' = bot_status
                /\ \A j \in InstIds \ {i} :
                      insts'[j].status = insts[j].status]_vars

\* The loss limit of the capital was reached by the rows of date d.
LimitReachedOn(d) == -r_rows[d] * 100 >= max_daily_loss * Capital

\* C21: losses of an earlier date do not count: with no losing row of the
\* current date the daily loss validate_trade works with is zero and no
\* call is rejected for the daily loss, whatever the rows of earlier dates.
C21_EarlierLossesDoNotCount ==
    r_rows[r_today] = 0 =>
        /\ DailyLoss = 0
        /\ r_verdict.asked => r_verdict.warning # "daily_loss"

\* C21's case: the limit was reached on the date before, the date has
\* changed, and a trade has been approved.
C21_Witness ==
    /\ r_today > 1
    /\ LimitReachedOn(r_today - 1)
    /\ r_rows[r_today] = 0
    /\ r_verdict.approved

\* A step that ends with a verdict is a validate_trade call: every other step
\* of the gate clears r_verdict.
\* C22 as stated: a validate_trade call leaves the capital, the rows and
\* the loss count as they were, and the trade it was given is the same after
\* the call, approved or rejected.
C22_EvaluationIsPure ==
    /\ [][r_verdict'.asked =>
            UNCHANGED <<r_capital, r_rows, r_today, r_loss_run>>]_vars
    /\ [](r_verdict.asked => r_verdict.trade = r_verdict.given)

\* C22, amended: a validate_trade call leaves the capital, the rows and the
\* loss count as they were; a rejected trade is the same after the call, an
\* approved one differs from the one given in stop_loss and take_profit
\* only; the answer is fixed by the capital, the day's loss and the trade.
C22_EvaluationWritesOnlyLevels ==
    /\ [][r_verdict'.asked =>
            UNCHANGED <<r_capital, r_rows, r_today, r_loss_run>>]_vars
    /\ [](r_verdict.asked =>
            /\ ~r_verdict.approved => r_verdict.trade = r_verdict.given
            /\ r_verdict.trade.side = r_verdict.given.side
            /\ r_verdict.trade.quantity = r_verdict.given.quantity
            /\ r_verdict.trade.price = r_verdict.given.price
            /\ r_verdict.approved <=>
                  (/\ Notional * 100 <= max_position_size * Capital
                   /\ DailyLoss * 100 < max_daily_loss * Capital))

\* C22's case: an approved trade has come back with its levels written.
C22_Witness ==
    /\ r_verdict.approved
    /\ r_verdict.trade # r_verdict.given
    /\ r_verdict.trade.stop_loss # 0

\* C29: the cash of a portfolio is never below zero, and a call of
\* update_position that raises leaves the cash and every asset row as they
\* were (a user without a portfolio row has the cash such a row is created
\* with; the USDT row, when missing, is created with value 0).
C29_CashNeverNegative ==
    /\ [](portfolio.cash >= 0)
    /\ [][pos_last'.raised =>
            /\ portfolio.exists => portfolio'.cash = portfolio.cash
            /\ ~portfolio.exists => portfolio'.cash = start_cash
            /\ \A i \in RowIds :
                  /\ assets[i] # NoRow => assets'[i] = assets[i]
                  /\ assets'[i].value # assets[i].value => assets[i] = NoRow
                  /\ assets'[i].value = 0 \/ assets[i] # NoRow]_vars

\* C29's case: after a buy was paid from the cash, a buy for more than the
\* cash left has raised.
C29_Witness ==
    /\ pos_last.raised
    /\ portfolio.cash > 0
    /\ portfolio.cash < start_cash
    /\ \E i \in RowIds : assets[i].value > 0

\* C30: while the breaker is OPEN and recovery_timeout has not passed since
\* the last recorded failure, the wrapped function is not invoked, and no
\* caller moves the breaker to HALF_OPEN.
C30_OpenBreakerAdmitsNoCall ==
    [][(cb_state = "OPEN" /\ last_failure_time = "recent") =>
          /\ \A c \in Callers : c_pc'[c] = "func" => c_pc[c] = "func"
          /\ cb_state' # "HALF_OPEN"]_vars

====
